---- MODULE Spec2Model ----
(***************************************************************************)
(* Model of the credential-trial pipeline of sqlblaster (sqlblaster.go):   *)
(* the file-backed source streams, the pair generator, the bounded worker  *)
(* pool of performTesting with its cancellation signal, the result         *)
(* collector, the checkpoint file state.json (saveState, loadState), the   *)
(* progress estimate, the merge of the config file (loadConfig) and the    *)
(* follow-on actions of testLogin.                                         *)
(***************************************************************************)
EXTENDS Integers, Sequences, FiniteSets, TLC

\* ------------------------------------------------------------------------
\* Bounds of the model
\* ------------------------------------------------------------------------
MaxUsers == 2
MaxPass == 1
MaxPairs == 2
MaxWorkers == 2
MaxGenUsers == 2
MaxGenPass == 2
MaxGenPairs == 4
MaxLines == 3
MaxLineLen == 2

\* Lines of a file whose non-blank lines countLines counts.
MaxCountLines == 2

\* Lines of each file of a resumed run.
MaxResumeLines == 2

\* Pairs of a run without interrupt: more than the results channel of one
\* worker holds.
MaxLivePairs == 3

\* ------------------------------------------------------------------------
\* Generic helpers
\* ------------------------------------------------------------------------
SeqsUpTo(S, n) == UNION {[1..k -> S] : k \in 0..n}

Min(a, b) == IF a < b THEN a ELSE b

\* ------------------------------------------------------------------------
\* State
\* ------------------------------------------------------------------------
VARIABLES
    cfg,            \* Config: Workers, FirstOnly, UserFirst; connectMode
    files,          \* the two source files: lines, and whether os.Open succeeds
    userList,       \* every candidate the identity stream will yield
    passList,       \* every candidate the secret stream will yield
    userChan,       \* candidates the identity stream has not yet delivered
    passChan,       \* candidates the secret stream has not yet delivered
    gen,            \* goroutine of buildCredentialPairs
    emitted,        \* history of the credentials sent on credChan
    disp,           \* dispatch goroutine of performTesting
    semaphore,      \* number of slots taken in the semaphore channel
    wg,             \* sync.WaitGroup counter
    mu,             \* sync.Mutex: 0 when free, else the holding worker
    successFound,   \* the success flag
    results,        \* buffered results channel (worker ids of the senders)
    resultsClosed,  \* close(results) has run
    ctxDone,        \* the context is cancelled
    interrupted,    \* the signal goroutine has received a signal
    workers,        \* one record per admitted worker goroutine
    surfaced,       \* the successes printed so far, with who printed each
    successCount,   \* collector's successCount
    collector,      \* "running", "interrupted" or "complete"
    bar,            \* progress bar count
    stateFile,      \* bytes of state.json
    lastSave,       \* pair of the saveState call that returned last
    panicked,       \* a goroutine panicked (send on closed channel)
    exited,         \* main has returned
    stream,         \* goroutine of streamLinesFromFile / resumeStreamFromFile
    yielded,        \* history of the lines the stream sent on its channel
    start,          \* performTesting before its goroutines: stream selection
    count,          \* performTesting: the progress estimate
    conf,           \* main: the settings after flag.Parse, then after loadConfig
    login,          \* one call of testLogin: position, follow-on actions done
    prior           \* resumed run: the two files and the checkpoint it loaded

poolVars == <<cfg, files, userList, passList, userChan, passChan, gen, emitted, disp,
              semaphore, wg, mu, successFound, results, resultsClosed,
              ctxDone, interrupted, workers, surfaced, successCount,
              collector, bar, stateFile, lastSave, panicked, exited>>

streamVars == <<stream, yielded>>

setupVars == <<start, count, conf, login, prior>>

vars == <<cfg, files, userList, passList, userChan, passChan, gen, emitted, disp,
          semaphore, wg, mu, successFound, results, resultsClosed,
          ctxDone, interrupted, workers, surfaced, successCount,
          collector, bar, stateFile, lastSave, panicked, exited, stream, yielded,
          start, count, conf, login, prior>>

\* ------------------------------------------------------------------------
\* Source streams: streamLinesFromFile and resumeStreamFromFile
\* ------------------------------------------------------------------------
\* A file is a sequence of raw lines, a raw line a sequence of characters.
Chars == {" ", "a"}

RawLines == SeqsUpTo(Chars, MaxLineLen)

Files == SeqsUpTo(RawLines, MaxLines)

RECURSIVE TrimLeft(_)
TrimLeft(s) ==
    IF s = <<>> THEN s
    ELSE IF Head(s) = " " THEN TrimLeft(Tail(s)) ELSE s

RECURSIVE TrimRight(_)
TrimRight(s) ==
    IF s = <<>> THEN s
    ELSE IF s[Len(s)] = " " THEN TrimRight(SubSeq(s, 1, Len(s) - 1)) ELSE s

\* strings.TrimSpace
TrimSpace(s) == TrimRight(TrimLeft(s))

\* Body of the scanner loop of streamLinesFromFile for one raw line:
\* the lines sent on the channel.
StreamLinesBody(raw) ==
    LET line == TrimSpace(raw)
    IN  IF line # <<>> THEN <<line>> ELSE <<>>

ResumeFoundLastInit_never(lastValue) == FALSE

\* foundLast before the scanner loop of resumeStreamFromFile.
ResumeFoundLastInit(lastValue) == lastValue = <<>>

ResumeBody_skipMatch(raw, lastValue, foundLast) ==
    LET line == TrimSpace(raw)
    IN  IF line = <<>> THEN [send |-> <<>>, foundLast |-> foundLast]
        ELSE IF foundLast \/ line = lastValue
             THEN [send |-> <<line>>, foundLast |-> TRUE]
        ELSE [send |-> <<>>, foundLast |-> foundLast]

ResumeBody_fallback(raw, lastValue, foundLast) ==
    LET line == TrimSpace(raw)
    IN  IF line = <<>> THEN [send |-> <<>>, foundLast |-> foundLast]
        ELSE IF foundLast \/ line # lastValue
             THEN [send |-> <<line>>, foundLast |-> foundLast]
        ELSE [send |-> <<>>, foundLast |-> TRUE]

\* Body of the scanner loop of resumeStreamFromFile for one raw line:
\* the lines sent on the channel and the new value of foundLast.
ResumeBody(raw, lastValue, foundLast) ==
    LET line == TrimSpace(raw)
    IN  IF line = <<>> THEN [send |-> <<>>, foundLast |-> foundLast]
        ELSE IF foundLast THEN [send |-> <<line>>, foundLast |-> TRUE]
        ELSE IF line = lastValue THEN [send |-> <<>>, foundLast |-> TRUE]
        ELSE [send |-> <<>>, foundLast |-> FALSE]

StreamIdle ==
    [kind |-> "none", file |-> <<>>, lastValue |-> <<>>, pos |-> 0,
     foundLast |-> FALSE, opened |-> FALSE, pc |-> "done"]

\* os.Open in either stream goroutine: on error the channel is closed with
\* nothing sent, otherwise the scanner loop starts.
StreamOpen ==
    /\ stream.pc = "open"
    /\ \/ stream' = [stream EXCEPT !.pc = "done"]
       \/ stream' = [stream EXCEPT
              !.pc = "scan",
              !.opened = TRUE,
              !.foundLast = IF stream.kind = "resume"
                            THEN ResumeFoundLastInit(stream.lastValue)
                            ELSE FALSE]
    /\ UNCHANGED yielded
    /\ UNCHANGED <<poolVars, setupVars>>

\* One iteration of the scanner loop of streamLinesFromFile.
StreamLinesScan ==
    /\ stream.pc = "scan"
    /\ stream.kind = "plain"
    /\ stream.pos < Len(stream.file)
    /\ yielded' = yielded \o StreamLinesBody(stream.file[stream.pos + 1])
    /\ stream' = [stream EXCEPT !.pos = stream.pos + 1]
    /\ UNCHANGED <<poolVars, setupVars>>

\* One iteration of the scanner loop of resumeStreamFromFile.
ResumeStreamScan ==
    /\ stream.pc = "scan"
    /\ stream.kind = "resume"
    /\ stream.pos < Len(stream.file)
    /\ LET r == ResumeBody(stream.file[stream.pos + 1], stream.lastValue,
                           stream.foundLast)
       IN  /\ yielded' = yielded \o r.send
           /\ stream' = [stream EXCEPT !.pos = stream.pos + 1,
                                       !.foundLast = r.foundLast]
    /\ UNCHANGED <<poolVars, setupVars>>

\* scanner.Scan returns false at the end of the file; the deferred
\* close(ch) runs.
StreamClose ==
    /\ stream.pc = "scan"
    /\ stream.pos = Len(stream.file)
    /\ stream' = [stream EXCEPT !.pc = "done"]
    /\ UNCHANGED yielded
    /\ UNCHANGED <<poolVars, setupVars>>

NextStream == StreamOpen \/ StreamLinesScan \/ ResumeStreamScan \/ StreamClose

\* ------------------------------------------------------------------------
\* Pair generator: buildCredentialPairs
\* ------------------------------------------------------------------------
Idents == {"u1", "u2"}

Secrets == {"p1", "p2"}

\* The process runs and performTesting has built the pool: the goroutines of
\* lines 394-521 exist only after the two source streams were chosen.
Alive ==
    /\ ~exited /\ ~panicked
    /\ start.pc \in {"idle", "running"}

Credential(u, p) == [user |-> u, pass |-> p]

GenInit ==
    [pc |-> "users", users |-> <<>>, passwords |-> <<>>, i |-> 1, j |-> 1,
     p |-> ""]

\* for u := range userChan { users = append(users, u) }
GenCollectUser ==
    /\ Alive
    /\ gen.pc = "users"
    /\ userChan # <<>>
    /\ gen' = [gen EXCEPT !.users = Append(gen.users, Head(userChan))]
    /\ userChan' = Tail(userChan)
    /\ UNCHANGED <<cfg, files, userList, passList, passChan, emitted, disp,
                   semaphore, wg, mu, successFound, results, resultsClosed,
                   ctxDone, interrupted, workers, surfaced, successCount,
                   collector, bar, stateFile, lastSave, panicked, exited>>
    /\ UNCHANGED <<streamVars, setupVars>>

\* userChan is closed and drained: the collecting loop ends.
GenUsersDone ==
    /\ Alive
    /\ gen.pc = "users"
    /\ userChan = <<>>
    /\ gen' = [gen EXCEPT !.pc = IF cfg.UserFirst THEN "passwords"
                                 ELSE "nextpass"]
    /\ UNCHANGED <<cfg, files, userList, passList, userChan, passChan, emitted, disp,
                   semaphore, wg, mu, successFound, results, resultsClosed,
                   ctxDone, interrupted, workers, surfaced, successCount,
                   collector, bar, stateFile, lastSave, panicked, exited>>
    /\ UNCHANGED <<streamVars, setupVars>>

\* user-first: for p := range passChan { passwords = append(passwords, p) }
GenCollectPass ==
    /\ Alive
    /\ gen.pc = "passwords"
    /\ passChan # <<>>
    /\ gen' = [gen EXCEPT !.passwords = Append(gen.passwords, Head(passChan))]
    /\ passChan' = Tail(passChan)
    /\ UNCHANGED <<cfg, files, userList, passList, userChan, emitted, disp,
                   semaphore, wg, mu, successFound, results, resultsClosed,
                   ctxDone, interrupted, workers, surfaced, successCount,
                   collector, bar, stateFile, lastSave, panicked, exited>>
    /\ UNCHANGED <<streamVars, setupVars>>

GenPassDone ==
    /\ Alive
    /\ gen.pc = "passwords"
    /\ passChan = <<>>
    /\ gen' = [gen EXCEPT !.pc = "loop", !.i = 1, !.j = 1]
    /\ UNCHANGED <<cfg, files, userList, passList, userChan, passChan, emitted, disp,
                   semaphore, wg, mu, successFound, results, resultsClosed,
                   ctxDone, interrupted, workers, surfaced, successCount,
                   collector, bar, stateFile, lastSave, panicked, exited>>
    /\ UNCHANGED <<streamVars, setupVars>>

\* password-first: for p := range passChan takes the next password.
GenNextPass ==
    /\ Alive
    /\ gen.pc = "nextpass"
    /\ passChan # <<>>
    /\ gen' = [gen EXCEPT !.p = Head(passChan), !.i = 1,
                          !.pc = IF gen.users = <<>> THEN "nextpass"
                                 ELSE "inner"]
    /\ passChan' = Tail(passChan)
    /\ UNCHANGED <<cfg, files, userList, passList, userChan, emitted, disp,
                   semaphore, wg, mu, successFound, results, resultsClosed,
                   ctxDone, interrupted, workers, surfaced, successCount,
                   collector, bar, stateFile, lastSave, panicked, exited>>
    /\ UNCHANGED <<streamVars, setupVars>>

\* The generator stands at a send on credChan.
GenAtSend ==
    \/ gen.pc = "loop" /\ gen.i <= Len(gen.users)
                       /\ gen.j <= Len(gen.passwords)
    \/ gen.pc = "inner"

\* The credential of the pending send.
GenCred_swapped ==
    IF gen.pc = "loop"
    THEN Credential(gen.users[Min(gen.j, Len(gen.users))],
                    gen.passwords[Min(gen.i, Len(gen.passwords))])
    ELSE Credential(gen.users[gen.i], gen.p)

GenCred_firstUser ==
    IF gen.pc = "loop"
    THEN Credential(gen.users[gen.i], gen.passwords[gen.j])
    ELSE Credential(gen.users[1], gen.p)

GenCred ==
    IF gen.pc = "loop"
    THEN Credential(gen.users[gen.i], gen.passwords[gen.j])
    ELSE Credential(gen.users[gen.i], gen.p)

\* The generator after the pending send: the loop indices advance.
GenAfterSend_eager ==
    IF gen.pc = "loop"
    THEN IF gen.j < Len(gen.passwords)
         THEN [gen EXCEPT !.j = gen.j + 1]
         ELSE [gen EXCEPT !.i = gen.i + 1, !.j = 1]
    ELSE [gen EXCEPT !.pc = "nextpass"]

GenAfterSend_stuck ==
    IF gen.pc = "loop"
    THEN IF gen.j < Len(gen.passwords)
         THEN gen
         ELSE [gen EXCEPT !.i = gen.i + 1, !.j = 1]
    ELSE IF gen.i < Len(gen.users)
         THEN [gen EXCEPT !.i = gen.i + 1]
         ELSE [gen EXCEPT !.pc = "nextpass"]

GenAfterSend ==
    IF gen.pc = "loop"
    THEN IF gen.j < Len(gen.passwords)
         THEN [gen EXCEPT !.j = gen.j + 1]
         ELSE [gen EXCEPT !.i = gen.i + 1, !.j = 1]
    ELSE IF gen.i < Len(gen.users)
         THEN [gen EXCEPT !.i = gen.i + 1]
         ELSE [gen EXCEPT !.pc = "nextpass"]

\* credChan is unbuffered: the generator's send and the receive of the
\* dispatch loop (for cred := range credChan) happen together.
SendCred ==
    /\ Alive
    /\ GenAtSend
    /\ disp.pc = "range"
    /\ emitted' = Append(emitted, GenCred)
    /\ disp' = [pc |-> "select", cred |-> GenCred]
    /\ gen' = GenAfterSend
    /\ UNCHANGED <<cfg, files, userList, passList, userChan, passChan,
                   semaphore, wg, mu, successFound, results, resultsClosed,
                   ctxDone, interrupted, workers, surfaced, successCount,
                   collector, bar, stateFile, lastSave, panicked, exited>>
    /\ UNCHANGED <<streamVars, setupVars>>

\* Both loops are over: the deferred close(credChan) runs.
GenClose ==
    /\ Alive
    /\ \/ gen.pc = "loop" /\ ~GenAtSend
       \/ gen.pc = "nextpass" /\ passChan = <<>>
    /\ gen' = [gen EXCEPT !.pc = "done"]
    /\ UNCHANGED <<cfg, files, userList, passList, userChan, passChan, emitted, disp,
                   semaphore, wg, mu, successFound, results, resultsClosed,
                   ctxDone, interrupted, workers, surfaced, successCount,
                   collector, bar, stateFile, lastSave, panicked, exited>>
    /\ UNCHANGED <<streamVars, setupVars>>

\* ------------------------------------------------------------------------
\* performTesting: dispatch goroutine
\* ------------------------------------------------------------------------
\* results := make(chan string, cfg.Workers*2)
ResultsCap == cfg.Workers * 2

\* The send `semaphore <- struct{}{}` can proceed.
SemaphoreCanSend_clamped ==
    semaphore < (IF cfg.Workers < 1 THEN 1 ELSE cfg.Workers)

SemaphoreCanSend_unbounded == TRUE

SemaphoreCanSend == semaphore < cfg.Workers

\* The case <-ctx.Done() of the select of the dispatch loop can proceed.
DispatchSeesDone == ctxDone

NewWorker_swapped(cred) ==
    [pc |-> "start", user |-> cred.pass, pass |-> cred.user,
     entryDone |-> FALSE, authed |-> FALSE, result |-> "",
     tried |-> FALSE, events |-> 0, saves |-> 0]

\* The worker goroutine started with (cred.user, cred.pass).
\* tried: testLogin was called; events: calls of bar.Add; saves: calls of
\* saveState.
NewWorker(cred) ==
    [pc |-> "start", user |-> cred.user, pass |-> cred.pass,
     entryDone |-> FALSE, authed |-> FALSE, result |-> "",
     tried |-> FALSE, events |-> 0, saves |-> 0]

\* select, case semaphore <- struct{}{}: a slot is acquired, wg.Add(1), and
\* the worker goroutine is started.  When both cases of the select can
\* proceed Go chooses one of them at random.
DispatchAdmit ==
    /\ Alive
    /\ disp.pc = "select"
    /\ SemaphoreCanSend
    /\ semaphore' = semaphore + 1
    /\ wg' = wg + 1
    /\ workers' = Append(workers, NewWorker(disp.cred))
    /\ disp' = [disp EXCEPT !.pc = "range"]
    /\ UNCHANGED <<cfg, files, userList, passList, userChan, passChan, gen, emitted,
                   mu, successFound, results, resultsClosed,
                   ctxDone, interrupted, surfaced, successCount,
                   collector, bar, stateFile, lastSave, panicked, exited>>
    /\ UNCHANGED <<streamVars, setupVars>>

\* select, case <-ctx.Done(): return; the deferred close(results) runs.
DispatchCancelled ==
    /\ Alive
    /\ disp.pc = "select"
    /\ DispatchSeesDone
    /\ disp' = [disp EXCEPT !.pc = "done"]
    /\ resultsClosed' = TRUE
    /\ UNCHANGED <<cfg, files, userList, passList, userChan, passChan, gen, emitted,
                   semaphore, wg, mu, successFound, results,
                   ctxDone, interrupted, workers, surfaced, successCount,
                   collector, bar, stateFile, lastSave, panicked, exited>>
    /\ UNCHANGED <<streamVars, setupVars>>

\* credChan is closed: the range loop ends and the goroutine reaches wg.Wait.
DispatchRangeEnd ==
    /\ Alive
    /\ disp.pc = "range"
    /\ gen.pc = "done"
    /\ disp' = [disp EXCEPT !.pc = "wait"]
    /\ UNCHANGED <<cfg, files, userList, passList, userChan, passChan, gen, emitted,
                   semaphore, wg, mu, successFound, results, resultsClosed,
                   ctxDone, interrupted, workers, surfaced, successCount,
                   collector, bar, stateFile, lastSave, panicked, exited>>
    /\ UNCHANGED <<streamVars, setupVars>>

\* wg.Wait() can return.
WaitGroupZero_never == FALSE

WaitGroupZero_nowait == TRUE

WaitGroupZero == wg = 0

\* wg.Wait() returns; the goroutine ends and the deferred close(results) runs.
DispatchWaitDone ==
    /\ Alive
    /\ disp.pc = "wait"
    /\ WaitGroupZero
    /\ disp' = [disp EXCEPT !.pc = "done"]
    /\ resultsClosed' = TRUE
    /\ UNCHANGED <<cfg, files, userList, passList, userChan, passChan, gen, emitted,
                   semaphore, wg, mu, successFound, results,
                   ctxDone, interrupted, workers, surfaced, successCount,
                   collector, bar, stateFile, lastSave, panicked, exited>>
    /\ UNCHANGED <<streamVars, setupVars>>

\* ------------------------------------------------------------------------
\* performTesting: worker goroutine
\* ------------------------------------------------------------------------
WorkerIds == 1..Len(workers)

PrecheckReturns_never == FALSE

\* if cfg.FirstOnly { mu.Lock(); if successFound { mu.Unlock(); return } ... }
PrecheckReturns == cfg.FirstOnly /\ successFound

\* The check of successFound before the trial (lock, read, unlock).  A worker
\* that sees the flag returns; its deferred calls run next.
WorkerPrecheck(w) ==
    /\ Alive
    /\ workers[w].pc = "start"
    /\ cfg.FirstOnly => mu = 0
    /\ workers' = [workers EXCEPT
           ![w].pc = IF PrecheckReturns THEN "release" ELSE "trial",
           ![w].tried = ~PrecheckReturns,
           ![w].entryDone = ctxDone]
    /\ UNCHANGED <<cfg, files, userList, passList, userChan, passChan, gen, emitted,
                   disp, semaphore, wg, mu, successFound, results,
                   resultsClosed, ctxDone, interrupted, surfaced,
                   successCount, collector, bar, stateFile, lastSave, panicked, exited>>
    /\ UNCHANGED <<streamVars, setupVars>>

\* Return value of testLogin: empty when the ping fails, and empty after an
\* interactive session (--connect); the success message otherwise.
TestLoginResult_always(authed, connect, sessionOpened) ==
    IF authed THEN "Success" ELSE ""

TestLoginResult(authed, connect, sessionOpened) ==
    IF ~authed THEN ""
    ELSE IF connect /\ sessionOpened THEN ""
    ELSE "Success"

\* testLogin up to its first return or, with --connect, to the print of the
\* success message.  PingContext fails at once on a context that was already
\* cancelled when the call began.  A failed ping returns ""; without
\* --connect a login returns the success message; with --connect the
\* message is printed by testLogin itself and the call goes on.  entryDone
\* is what the call saw of ctx when it began; it is dropped once used.
TestLoginPing(w) ==
    /\ Alive
    /\ workers[w].pc = "trial"
    /\ \E authed \in (IF workers[w].entryDone THEN {FALSE} ELSE BOOLEAN) :
          IF authed /\ cfg.connectMode
          THEN /\ workers' = [workers EXCEPT ![w].authed = TRUE,
                                              ![w].entryDone = FALSE,
                                              ![w].pc = "connect"]
               /\ surfaced' = surfaced \cup {[by |-> "testLogin", w |-> w]}
          ELSE /\ LET result == TestLoginResult(authed, FALSE, FALSE)
                  IN  workers' = [workers EXCEPT
                         ![w].authed = authed,
                         ![w].entryDone = FALSE,
                         ![w].result = result,
                         ![w].pc = IF result # "" THEN "report"
                                   ELSE "progress"]
               /\ UNCHANGED surfaced
    /\ UNCHANGED <<cfg, files, userList, passList, userChan, passChan, gen, emitted,
                   disp, semaphore, wg, mu, successFound, results,
                   resultsClosed, ctxDone, interrupted,
                   successCount, collector, bar, stateFile, lastSave, panicked, exited>>
    /\ UNCHANGED <<streamVars, setupVars>>

\* --connect: sql.Open and Ping of the interactive connection.  On failure
\* testLogin returns the success message with a note; otherwise it enters
\* enterInteractiveMode.
TestLoginConnect(w) ==
    /\ Alive
    /\ workers[w].pc = "connect"
    /\ \E sessionOpened \in BOOLEAN :
          IF sessionOpened
          THEN workers' = [workers EXCEPT ![w].pc = "session"]
          ELSE workers' = [workers EXCEPT
                  ![w].result = TestLoginResult(TRUE, TRUE, FALSE),
                  ![w].pc = "report"]
    /\ UNCHANGED surfaced
    /\ UNCHANGED <<cfg, files, userList, passList, userChan, passChan, gen, emitted,
                   disp, semaphore, wg, mu, successFound, results,
                   resultsClosed, ctxDone, interrupted,
                   successCount, collector, bar, stateFile, lastSave, panicked, exited>>
    /\ UNCHANGED <<streamVars, setupVars>>

\* --connect: enterInteractiveMode returns and testLogin returns "".
TestLoginSession(w) ==
    /\ Alive
    /\ workers[w].pc = "session"
    /\ LET result == TestLoginResult(TRUE, TRUE, TRUE)
       IN  workers' = [workers EXCEPT
              ![w].result = result,
              ![w].pc = IF result # "" THEN "report" ELSE "progress"]
    /\ UNCHANGED surfaced
    /\ UNCHANGED <<cfg, files, userList, passList, userChan, passChan, gen, emitted,
                   disp, semaphore, wg, mu, successFound, results,
                   resultsClosed, ctxDone, interrupted,
                   successCount, collector, bar, stateFile, lastSave, panicked, exited>>
    /\ UNCHANGED <<streamVars, setupVars>>

\* The worker takes the first branch of `if cfg.FirstOnly && !successFound`.
ReportsFirst_unlocked == cfg.FirstOnly

ReportsFirst == cfg.FirstOnly /\ ~successFound

\* mu.Lock() after a non-empty result.  First branch: the flag is set, the
\* result printed, cancel() called, mu.Unlock().  Else branch: the worker
\* goes on to send on results, holding the lock.
WorkerReport(w) ==
    /\ Alive
    /\ workers[w].pc = "report"
    /\ mu = 0
    /\ IF ReportsFirst
       THEN /\ successFound' = TRUE
            /\ surfaced' = surfaced \cup {[by |-> "worker", w |-> w]}
            /\ ctxDone' = TRUE
            /\ workers' = [workers EXCEPT ![w].pc = "progress"]
            /\ UNCHANGED mu
       ELSE /\ mu' = w
            /\ workers' = [workers EXCEPT ![w].pc = "send"]
            /\ UNCHANGED <<successFound, surfaced, ctxDone>>
    /\ UNCHANGED <<cfg, files, userList, passList, userChan, passChan, gen, emitted,
                   disp, semaphore, wg, results, resultsClosed, interrupted,
                   successCount, collector, bar, stateFile, lastSave, panicked, exited>>
    /\ UNCHANGED <<streamVars, setupVars>>

\* results <- result, then mu.Unlock().  The send blocks while the buffer is
\* full.  On a closed channel it panics: the goroutine unwinds through its
\* deferred calls (<-semaphore, wg.Done()) with mu still locked, and the
\* runtime ends the process.
WorkerSend(w) ==
    /\ Alive
    /\ workers[w].pc = "send"
    /\ IF resultsClosed
       THEN /\ panicked' = TRUE
            /\ semaphore' = semaphore - 1
            /\ wg' = wg - 1
            /\ UNCHANGED <<results, mu, workers>>
       ELSE /\ Len(results) < ResultsCap
            /\ results' = Append(results, w)
            /\ mu' = 0
            /\ workers' = [workers EXCEPT ![w].pc = "progress"]
            /\ UNCHANGED <<panicked, semaphore, wg>>
    /\ UNCHANGED <<cfg, files, userList, passList, userChan, passChan, gen, emitted,
                   disp, successFound, resultsClosed,
                   ctxDone, interrupted, surfaced, successCount,
                   collector, bar, stateFile, lastSave, exited>>
    /\ UNCHANGED <<streamVars, setupVars>>

\* json.Encoder.Encode of a State with SetIndent("", "  "): the bytes written
\* for candidates of letters and digits, which JSON does not escape.
Encode(user, pass) ==
    "{\n  \"last_user\": \"" \o user \o "\",\n  \"last_pass\": \""
        \o pass \o "\"\n}\n"

\* A write of rec at offset 0 of a file holding old: the bytes of old beyond
\* the length of rec stay.
WriteAtStart(old, rec) ==
    IF Len(rec) >= Len(old) THEN rec
    ELSE rec \o SubSeq(old, Len(rec) + 1, Len(old))

\* bar.Add(1): the progress event of the pair.
WorkerProgress(w) ==
    /\ Alive
    /\ workers[w].pc = "progress"
    /\ bar' = bar + 1
    /\ workers' = [workers EXCEPT ![w].pc = "save", ![w].events = @ + 1]
    /\ UNCHANGED <<cfg, files, userList, passList, userChan, passChan, gen, emitted,
                   disp, semaphore, wg, mu, successFound, results,
                   resultsClosed, ctxDone, interrupted, surfaced,
                   successCount, collector, stateFile, lastSave, panicked, exited>>
    /\ UNCHANGED <<streamVars, setupVars>>

\* saveState is called: os.Create truncates state.json, or fails and
\* saveState returns without writing.
WorkerSaveCreate(w) ==
    /\ Alive
    /\ workers[w].pc = "save"
    /\ \E created \in BOOLEAN :
          IF created
          THEN /\ stateFile' = ""
               /\ workers' = [workers EXCEPT ![w].pc = "encode",
                                             ![w].saves = @ + 1]
          ELSE /\ UNCHANGED stateFile
               /\ workers' = [workers EXCEPT ![w].pc = "release",
                                             ![w].saves = @ + 1]
    /\ UNCHANGED <<cfg, files, userList, passList, userChan, passChan, gen, emitted,
                   disp, semaphore, wg, mu, successFound, results,
                   resultsClosed, ctxDone, interrupted, surfaced,
                   successCount, collector, bar, lastSave, panicked, exited>>
    /\ UNCHANGED <<streamVars, setupVars>>

\* saveState: encoder.Encode(state) writes the record through the
\* worker's own descriptor, whose offset is 0; the call returns.
WorkerSaveEncode(w) ==
    /\ Alive
    /\ workers[w].pc = "encode"
    /\ stateFile' = WriteAtStart(stateFile,
                                 Encode(workers[w].user, workers[w].pass))
    /\ lastSave' = <<[LastUser |-> workers[w].user,
                      LastPass |-> workers[w].pass]>>
    /\ workers' = [workers EXCEPT ![w].pc = "release"]
    /\ UNCHANGED <<cfg, files, userList, passList, userChan, passChan, gen, emitted,
                   disp, semaphore, wg, mu, successFound, results,
                   resultsClosed, ctxDone, interrupted, surfaced,
                   successCount, collector, bar, panicked, exited>>
    /\ UNCHANGED <<streamVars, setupVars>>

\* The goroutine returns and its deferred calls run, last registered first:
\* <-semaphore releases the slot.
WorkerRelease(w) ==
    /\ Alive
    /\ workers[w].pc = "release"
    /\ semaphore' = semaphore - 1
    /\ workers' = [workers EXCEPT ![w].pc = "finish"]
    /\ UNCHANGED <<cfg, files, userList, passList, userChan, passChan, gen, emitted,
                   disp, wg, mu, successFound, results,
                   resultsClosed, ctxDone, interrupted, surfaced,
                   successCount, collector, bar, stateFile, lastSave, panicked, exited>>
    /\ UNCHANGED <<streamVars, setupVars>>

\* The second deferred call, wg.Done(); the goroutine ends.
WorkerEnd(w) ==
    /\ Alive
    /\ workers[w].pc = "finish"
    /\ wg' = wg - 1
    /\ workers' = [workers EXCEPT ![w].pc = "done"]
    /\ UNCHANGED <<cfg, files, userList, passList, userChan, passChan, gen, emitted,
                   disp, semaphore, mu, successFound, results,
                   resultsClosed, ctxDone, interrupted, surfaced,
                   successCount, collector, bar, stateFile, lastSave, panicked, exited>>
    /\ UNCHANGED <<streamVars, setupVars>>

\* ------------------------------------------------------------------------
\* performTesting: result collector, and main
\* ------------------------------------------------------------------------
\* select, case <-ctx.Done(): "Testing interrupted.", return.
CollectCancelled ==
    /\ Alive
    /\ collector = "running"
    /\ ctxDone
    /\ collector' = "interrupted"
    /\ UNCHANGED <<cfg, files, userList, passList, userChan, passChan, gen, emitted,
                   disp, semaphore, wg, mu, successFound, results,
                   resultsClosed, ctxDone, interrupted, workers, surfaced,
                   successCount, bar, stateFile, lastSave, panicked, exited>>
    /\ UNCHANGED <<streamVars, setupVars>>

\* select, case result, ok := <-results with ok: count and print it.
CollectResult ==
    /\ Alive
    /\ collector = "running"
    /\ results # <<>>
    /\ successCount' = successCount + 1
    /\ surfaced' = surfaced \cup {[by |-> "collector", w |-> Head(results)]}
    /\ results' = Tail(results)
    /\ UNCHANGED <<cfg, files, userList, passList, userChan, passChan, gen, emitted,
                   disp, semaphore, wg, mu, successFound,
                   resultsClosed, ctxDone, interrupted, workers,
                   collector, bar, stateFile, lastSave, panicked, exited>>
    /\ UNCHANGED <<streamVars, setupVars>>

\* select, case result, ok := <-results with !ok (closed and drained):
\* "Testing complete.", return.
CollectClosed ==
    /\ Alive
    /\ collector = "running"
    /\ results = <<>>
    /\ resultsClosed
    /\ collector' = "complete"
    /\ UNCHANGED <<cfg, files, userList, passList, userChan, passChan, gen, emitted,
                   disp, semaphore, wg, mu, successFound, results,
                   resultsClosed, ctxDone, interrupted, workers, surfaced,
                   successCount, bar, stateFile, lastSave, panicked, exited>>
    /\ UNCHANGED <<streamVars, setupVars>>

\* performTesting has returned: main returns (its deferred cancel() runs) and
\* the process ends, with every goroutine still running.
MainReturn ==
    /\ Alive
    /\ collector # "running"
    /\ exited' = TRUE
    /\ ctxDone' = TRUE
    /\ UNCHANGED <<cfg, files, userList, passList, userChan, passChan, gen, emitted,
                   disp, semaphore, wg, mu, successFound, results,
                   resultsClosed, interrupted, workers, surfaced,
                   successCount, collector, bar, stateFile, lastSave, panicked>>
    /\ UNCHANGED <<streamVars, setupVars>>

\* The signal goroutine of main receives SIGINT/SIGTERM and calls cancel().
Interrupt ==
    /\ Alive
    /\ ~interrupted
    /\ interrupted' = TRUE
    /\ ctxDone' = TRUE
    /\ UNCHANGED <<cfg, files, userList, passList, userChan, passChan, gen, emitted,
                   disp, semaphore, wg, mu, successFound, results,
                   resultsClosed, workers, surfaced,
                   successCount, collector, bar, stateFile, lastSave, panicked, exited>>
    /\ UNCHANGED <<streamVars, setupVars>>

\* ------------------------------------------------------------------------
\* loadState, and performTesting up to the choice of the two source streams
\* ------------------------------------------------------------------------
\* State{}: the zero value of the State struct.
EmptyState == [LastUser |-> "", LastPass |-> ""]

\* The bytes of s from position i on begin with t.
HasPrefixAt(s, i, t) ==
    /\ i + Len(t) - 1 <= Len(s)
    /\ SubSeq(s, i, i + Len(t) - 1) = t

\* Position of the first double quote of s at or after position i; 0 if none.
QuoteAt(s, i) ==
    LET qs == {j \in i..Len(s) : SubSeq(s, j, j) = "\""}
    IN  IF qs = {} THEN 0 ELSE CHOOSE j \in qs : \A k \in qs : j <= k

Decode_swapped(bytes) ==
    LET open == "{\n  \"last_user\": \""
        mid == "\",\n  \"last_pass\": \""
        close == "\"\n}"
        failed == [ok |-> FALSE, state |-> EmptyState]
        a == Len(open) + 1
        q == QuoteAt(bytes, a)
        b == q + Len(mid)
        r == QuoteAt(bytes, b)
    IN  IF ~HasPrefixAt(bytes, 1, open) \/ q = 0 THEN failed
        ELSE IF ~HasPrefixAt(bytes, q, mid) \/ r = 0 THEN failed
        ELSE IF ~HasPrefixAt(bytes, r, close) THEN failed
        ELSE [ok |-> TRUE,
              state |-> [LastUser |-> SubSeq(bytes, b, r - 1),
                         LastPass |-> SubSeq(bytes, a, q - 1)]]

\* json.Decoder.Decode into a State, on the bytes saveState can leave in
\* state.json: it reads the first JSON value (an object with the two string
\* members, values of letters and digits) and leaves what follows unread;
\* an empty or cut-off input is an error.
Decode(bytes) ==
    LET open == "{\n  \"last_user\": \""
        mid == "\",\n  \"last_pass\": \""
        close == "\"\n}"
        failed == [ok |-> FALSE, state |-> EmptyState]
        a == Len(open) + 1
        q == QuoteAt(bytes, a)
        b == q + Len(mid)
        r == QuoteAt(bytes, b)
    IN  IF ~HasPrefixAt(bytes, 1, open) \/ q = 0 THEN failed
        ELSE IF ~HasPrefixAt(bytes, q, mid) \/ r = 0 THEN failed
        ELSE IF ~HasPrefixAt(bytes, r, close) THEN failed
        ELSE [ok |-> TRUE,
              state |-> [LastUser |-> SubSeq(bytes, a, q - 1),
                         LastPass |-> SubSeq(bytes, b, r - 1)]]

\* loadState: State{} when state.json cannot be opened or decoded.
loadState(exists, bytes) ==
    IF ~exists THEN EmptyState
    ELSE IF ~Decode(bytes).ok THEN EmptyState
    ELSE Decode(bytes).state

\* Pairs an earlier run can have saved.
SavedUsers == {"u1", "u222"}

SavedPasses == {"", "p1"}

\* Settings of the sources: exactly one of -u and -U (main rejects the rest);
\* -p and -P in any combination.
StartConfigs ==
    {c \in [SingleUser : {"", "u1"}, UserList : {"", "users.txt"},
            SinglePass : {"", "p1"}, PassList : {"", "pass.txt"}] :
        (c.SingleUser = "") # (c.UserList = "")}

StartIdle ==
    [pc |-> "idle", resume |-> FALSE, exists |-> FALSE,
     cfg |-> [SingleUser |-> "u1", UserList |-> "", SinglePass |-> "",
              PassList |-> ""],
     userSrc |-> [kind |-> "none", value |-> ""],
     passSrc |-> [kind |-> "none", value |-> ""],
     loaded |-> <<>>]

\* The variables of the pool other than state.json and the last save.
runVars == <<cfg, files, userList, passList, userChan, passChan, gen, emitted, disp,
             semaphore, wg, mu, successFound, results, resultsClosed,
             ctxDone, interrupted, workers, surfaced, successCount,
             collector, bar, panicked, exited>>

\* saveState of an earlier run: os.Create truncates (or creates) state.json.
EarlierCreate ==
    /\ start.pc = "earlier"
    /\ stateFile' = ""
    /\ start' = [start EXCEPT !.exists = TRUE]
    /\ UNCHANGED <<runVars, lastSave, streamVars, count, conf, login, prior>>

\* saveState of an earlier run: Encode writes the record at offset 0 and the
\* call returns.  Without an EarlierCreate in between, the descriptor was
\* created before the previous write (two saves overlapping).
EarlierEncode ==
    /\ start.pc = "earlier"
    /\ start.exists
    /\ \E user \in SavedUsers, pass \in SavedPasses :
          /\ stateFile' = WriteAtStart(stateFile, Encode(user, pass))
          /\ lastSave' = <<[LastUser |-> user, LastPass |-> pass]>>
    /\ UNCHANGED <<runVars, streamVars, start, count, conf, login, prior>>

\* main calls performTesting(ctx, resume, logFile) with a validated cfg.
EnterPerformTesting ==
    /\ start.pc = "earlier"
    /\ \E resume \in BOOLEAN, c \in StartConfigs :
          start' = [start EXCEPT !.pc = "users", !.resume = resume, !.cfg = c]
    /\ UNCHANGED <<poolVars, streamVars, count, conf, login, prior>>

\* The stream of one axis read from a file: resumeStreamFromFile with the
\* loaded value when resume is set and state.json exists, else
\* streamLinesFromFile.
FileSource(loaded) ==
    IF start.resume /\ start.exists
    THEN [kind |-> "resume", value |-> loaded]
    ELSE [kind |-> "plain", value |-> ""]

\* performTesting, "Prepare usernames".
SelectUserStream ==
    /\ start.pc = "users"
    /\ LET state == loadState(start.exists, stateFile)
       IN  IF start.cfg.SingleUser # ""
           THEN start' = [start EXCEPT
                    !.pc = "passwords",
                    !.userSrc = [kind |-> "single",
                                 value |-> start.cfg.SingleUser]]
           ELSE start' = [start EXCEPT
                    !.pc = "passwords",
                    !.userSrc = FileSource(state.LastUser),
                    !.loaded = IF start.resume /\ start.exists
                               THEN Append(start.loaded, state)
                               ELSE start.loaded]
    /\ UNCHANGED <<poolVars, streamVars, count, conf, login, prior>>

\* performTesting, "Prepare passwords".
SelectPassStream ==
    /\ start.pc = "passwords"
    /\ LET state == loadState(start.exists, stateFile)
       IN  IF start.cfg.SinglePass # ""
           THEN start' = [start EXCEPT
                    !.pc = "done",
                    !.passSrc = [kind |-> "single",
                                 value |-> start.cfg.SinglePass]]
           ELSE IF start.cfg.PassList # ""
           THEN start' = [start EXCEPT
                    !.pc = "done",
                    !.passSrc = FileSource(state.LastPass),
                    !.loaded = IF start.resume /\ start.exists
                               THEN Append(start.loaded, state)
                               ELSE start.loaded]
           ELSE start' = [start EXCEPT
                    !.pc = "done",
                    !.passSrc = [kind |-> "single", value |-> ""]]
    /\ UNCHANGED <<poolVars, streamVars, count, conf, login, prior>>

\* What the stream of a chosen source can send: the literal of a single
\* value, or what a file holds after the trimming and the skipping.
SourceYields(src, candidate) ==
    IF src.kind = "single" THEN {<<src.value>>}
    ELSE {<<>>, <<candidate>>}

\* performTesting from buildCredentialPairs on: the generator, the dispatch
\* loop and the collector start on the two chosen streams.
StartPool ==
    /\ start.pc = "done"
    /\ start' = [start EXCEPT !.pc = "running"]
    /\ \E uf \in BOOLEAN, users \in SourceYields(start.userSrc, "u222"),
          passes \in SourceYields(start.passSrc, "p1") :
          /\ cfg' = [cfg EXCEPT !.UserFirst = uf]
          /\ files' = [users |-> [opened |-> TRUE, lines |-> users],
                       passes |-> [opened |-> TRUE, lines |-> passes]]
          /\ userList' = users
          /\ passList' = passes
          /\ userChan' = users
          /\ passChan' = passes
    /\ UNCHANGED <<gen, emitted, disp, semaphore, wg, mu, successFound,
                   results, resultsClosed, ctxDone, interrupted, workers,
                   surfaced, successCount, collector, bar, stateFile,
                   lastSave, panicked, exited>>
    /\ UNCHANGED <<streamVars, count, conf, login, prior>>

NextStart ==
    \/ EarlierCreate \/ EarlierEncode \/ EnterPerformTesting
    \/ SelectUserStream \/ SelectPassStream \/ StartPool

\* ------------------------------------------------------------------------
\* performTesting: the progress estimate
\* ------------------------------------------------------------------------
\* Raw lines of the counted files: empty, blank, a candidate, a padded one.
CountedLines == {<<>>, <<" ">>, <<"a">>, <<" ", "a">>}

CountedFiles == SeqsUpTo(CountedLines, MaxCountLines)

countLines_all(opened, file) ==
    IF ~opened THEN 0 ELSE Len(file)

\* countLines: 0 when the file cannot be opened, else the number of lines
\* that are not empty after strings.TrimSpace.
countLines(opened, file) ==
    IF ~opened THEN 0
    ELSE Cardinality({i \in 1..Len(file) : TrimSpace(file[i]) # <<>>})

\* totalTests of performTesting.
TotalTests(c, userOpened, userFile, passOpened, passFile) ==
    IF c.SingleUser # ""
    THEN IF c.SinglePass # "" THEN 1
         ELSE IF c.PassList # "" THEN countLines(passOpened, passFile)
         ELSE 1
    ELSE IF c.UserList # ""
    THEN LET userCount == countLines(userOpened, userFile)
         IN  IF c.SinglePass # "" THEN userCount
             ELSE IF c.PassList # ""
                  THEN userCount * countLines(passOpened, passFile)
             ELSE userCount
    ELSE 0

CountIdle ==
    [pc |-> "idle", cfg |-> StartIdle.cfg, userOpened |-> FALSE,
     userFile |-> <<>>, passOpened |-> FALSE, passFile |-> <<>>,
     totalTests |-> 0]

\* performTesting, "Count total credentials for progress bar".
CountTotal ==
    /\ count.pc = "count"
    /\ count' = [count EXCEPT
           !.pc = "done",
           !.totalTests = TotalTests(count.cfg, count.userOpened,
                                     count.userFile, count.passOpened,
                                     count.passFile)]
    /\ UNCHANGED <<poolVars, streamVars, start, conf, login, prior>>

\* ------------------------------------------------------------------------
\* main: flag.Parse, then loadConfig
\* ------------------------------------------------------------------------
\* Default of the --workers flag, which loadConfig compares with.
DefaultWorkers == 10

\* The settings modelled, one for each way loadConfig merges a setting:
\* Host (string, default ""), Workers (int, default 10), FirstOnly (bool).
Settings == {"Host", "Workers", "FirstOnly"}

\* Values a flag given on the command line can set.
FlagValues ==
    [Host |-> {"db1", "db2"}, Workers |-> {1, DefaultWorkers, 50},
     FirstOnly |-> BOOLEAN]

\* Values of the flags not given: the defaults registered in main.
FlagDefaults == [Host |-> "", Workers |-> DefaultWorkers, FirstOnly |-> FALSE]

\* newCfg after mapstructure.Decode: the zero value where the file has no key.
FileConfigs ==
    [Host : {"", "db1", "db2"}, Workers : {0, 1, DefaultWorkers, 50},
     FirstOnly : BOOLEAN]

\* loadConfig: cfg after the merge of newCfg.  A setting counts as not set
\* on the command line when cfg holds the flag's default value.
loadConfig(c, newCfg) ==
    [Host |-> IF c.Host = "" THEN newCfg.Host ELSE c.Host,
     Workers |-> IF c.Workers = DefaultWorkers /\ newCfg.Workers # 0
                 THEN newCfg.Workers ELSE c.Workers,
     FirstOnly |-> IF ~c.FirstOnly /\ newCfg.FirstOnly
                   THEN newCfg.FirstOnly ELSE c.FirstOnly]

ConfIdle ==
    [pc |-> "idle", given |-> [s \in Settings |-> FALSE],
     flags |-> FlagDefaults, cfg |-> FlagDefaults, hasFile |-> FALSE,
     newCfg |-> [Host |-> "", Workers |-> 0, FirstOnly |-> FALSE]]

\* main: if configFile != "" { loadConfig(configFile) }.
LoadConfig ==
    /\ conf.pc = "parsed"
    /\ conf.hasFile
    /\ conf' = [conf EXCEPT
           !.pc = "loaded",
           !.cfg = loadConfig(conf.cfg, conf.newCfg)]
    /\ UNCHANGED <<poolVars, streamVars, start, count, login, prior>>

\* main without --config: cfg stays as parsed.
NoConfig ==
    /\ conf.pc = "parsed"
    /\ ~conf.hasFile
    /\ conf' = [conf EXCEPT !.pc = "loaded"]
    /\ UNCHANGED <<poolVars, streamVars, start, count, login, prior>>

NextConfig == LoadConfig \/ NoConfig

\* ------------------------------------------------------------------------
\* testLogin: what follows a successful ping
\* ------------------------------------------------------------------------
\* The settings testLogin branches on; dangerous stands for
\* isDangerous(cfg.ExecCmd).
LoginConfigs ==
    [Dump : BOOLEAN, connectMode : BOOLEAN, Enum : BOOLEAN,
     dangerous : BOOLEAN, AllowDangerous : BOOLEAN]

LoginIdle ==
    [pc |-> "idle",
     cfg |-> [Dump |-> FALSE, connectMode |-> FALSE, Enum |-> FALSE,
              dangerous |-> FALSE, AllowDangerous |-> FALSE],
     actions |-> <<>>, result |-> "none"]

AfterPing_connectFirst(c) ==
    IF c.connectMode THEN "connect"
    ELSE IF c.Dump THEN "dump"
    ELSE IF c.Enum THEN "enum"
    ELSE "danger"

\* The branch testLogin takes after db.PingContext succeeded.
AfterPing(c) ==
    IF c.Dump THEN "dump"
    ELSE IF c.connectMode THEN "connect"
    ELSE IF c.Enum THEN "enum"
    ELSE "danger"

\* sql.Open and db.PingContext: on an error testLogin returns "".
LoginPing ==
    /\ login.pc = "ping"
    /\ \/ login' = [login EXCEPT !.pc = "returned", !.result = "empty"]
       \/ login' = [login EXCEPT !.pc = AfterPing(login.cfg)]
    /\ UNCHANGED <<poolVars, streamVars, start, count, conf, prior>>

\* if cfg.Dump: the dump connection fails, or dumpAllDatabases runs; return.
LoginDump ==
    /\ login.pc = "dump"
    /\ \/ login' = [login EXCEPT !.pc = "returned", !.result = "message"]
       \/ login' = [login EXCEPT !.pc = "returned", !.result = "message",
                                 !.actions = Append(login.actions, "dump")]
    /\ UNCHANGED <<poolVars, streamVars, start, count, conf, prior>>

\* if connectMode: the interactive connection fails (a message is returned),
\* or enterInteractiveMode runs and "" is returned.
LoginConnect ==
    /\ login.pc = "connect"
    /\ \/ login' = [login EXCEPT !.pc = "returned", !.result = "message"]
       \/ login' = [login EXCEPT
              !.pc = "returned", !.result = "empty",
              !.actions = Append(login.actions, "interactive")]
    /\ UNCHANGED <<poolVars, streamVars, start, count, conf, prior>>

\* if cfg.Enum: enumerateMySQL runs; testLogin goes on to the command.
LoginEnum ==
    /\ login.pc = "enum"
    /\ login' = [login EXCEPT !.pc = "danger",
                              !.actions = Append(login.actions, "enum")]
    /\ UNCHANGED <<poolVars, streamVars, start, count, conf, prior>>

\* if isDangerous(cfg.ExecCmd) && !cfg.AllowDangerous: return the warning.
LoginDangerCheck ==
    /\ login.pc = "danger"
    /\ IF login.cfg.dangerous /\ ~login.cfg.AllowDangerous
       THEN login' = [login EXCEPT !.pc = "returned", !.result = "message"]
       ELSE login' = [login EXCEPT !.pc = "exec"]
    /\ UNCHANGED <<poolVars, streamVars, start, count, conf, prior>>

\* db.QueryContext or db.ExecContext of cfg.ExecCmd; return, whether the
\* server reports an error or not.
LoginExec ==
    /\ login.pc = "exec"
    /\ login' = [login EXCEPT !.pc = "returned", !.result = "message",
                              !.actions = Append(login.actions, "exec")]
    /\ UNCHANGED <<poolVars, streamVars, start, count, conf, prior>>

NextLogin ==
    \/ LoginPing \/ LoginDump \/ LoginConnect \/ LoginEnum
    \/ LoginDangerCheck \/ LoginExec

\* ------------------------------------------------------------------------
\* performTesting with resume: the streams a resumed run reads
\* ------------------------------------------------------------------------
\* Raw lines of the files of a resumed run.
ResumeLines == {<<" ">>, <<"a">>, <<"a", "a">>, <<" ", "a", "a">>}

ResumeFiles == SeqsUpTo(ResumeLines, MaxResumeLines)

\* The string of a line held as a sequence of characters.
RECURSIVE Text(_)
Text(line) == IF line = <<>> THEN "" ELSE Head(line) \o Text(Tail(line))

\* Everything resumeStreamFromFile sends for a file: the scanner loop run
\* over the raw lines from position pos with the current foundLast.
RECURSIVE ResumeScan(_, _, _, _)
ResumeScan(file, lastValue, foundLast, pos) ==
    IF pos > Len(file) THEN <<>>
    ELSE LET r == ResumeBody(file[pos], lastValue, foundLast)
         IN  r.send \o ResumeScan(file, lastValue, r.foundLast, pos + 1)

resumeStreamFromFile(file, lastValue) ==
    ResumeScan(file, lastValue, ResumeFoundLastInit(lastValue), 1)

\* The candidates of a stream as the strings the generator pairs.
Texts(lines) == [k \in 1..Len(lines) |-> Text(lines[k])]

PriorIdle ==
    [userFile |-> <<>>, passFile |-> <<>>, lastUser |-> <<>>,
     lastPass |-> <<>>]

\* The variables of the parts not running.
SetupIdle ==
    /\ start = StartIdle
    /\ count = CountIdle
    /\ conf = ConfIdle
    /\ login = LoginIdle
    /\ prior = PriorIdle

\* ------------------------------------------------------------------------
\* Specifications
\* ------------------------------------------------------------------------
Configs ==
    [Workers : 1..MaxWorkers, FirstOnly : BOOLEAN, UserFirst : BOOLEAN,
     connectMode : BOOLEAN]

Yield_unopened(file) == file.lines

\* What the stream goroutine of a source file sends before it closes its
\* channel: nothing when os.Open fails.
Yield(file) == IF file.opened THEN file.lines ELSE <<>>

Readable(lines) == [opened |-> TRUE, lines |-> lines]

\* State of performTesting before its goroutines have run, on two source
\* files.
PoolStartState(c, f, bytes) ==
    /\ cfg = c
    /\ files = f
    /\ userList = Yield(f.users)
    /\ passList = Yield(f.passes)
    /\ userChan = Yield(f.users)
    /\ passChan = Yield(f.passes)
    /\ gen = GenInit
    /\ emitted = <<>>
    /\ disp = [pc |-> "range", cred |-> Credential("", "")]
    /\ semaphore = 0
    /\ wg = 0
    /\ mu = 0
    /\ successFound = FALSE
    /\ results = <<>>
    /\ resultsClosed = FALSE
    /\ ctxDone = FALSE
    /\ interrupted = FALSE
    /\ workers = <<>>
    /\ surfaced = {}
    /\ successCount = 0
    /\ collector = "running"
    /\ bar = 0
    /\ stateFile = bytes
    /\ lastSave = <<>>
    /\ panicked = FALSE
    /\ exited = FALSE

\* The same with no state.json, or an empty one.
PoolStartFiles(c, f) == PoolStartState(c, f, "")

\* State of performTesting before its goroutines have run, on two sources
\* that yield the given candidates.
PoolStart(c, users, passes) ==
    PoolStartFiles(c, [users |-> Readable(users), passes |-> Readable(passes)])

\* main accepts --connect only with a single username and a single password.
ValidInputs(c, users, passes) ==
    c.connectMode => (Len(users) = 1 /\ Len(passes) = 1)

\* The lines of a source file: the first n names, or with rep the file of
\* two lines that names the first candidate twice.
SourceLines(names, n, rep) ==
    IF rep THEN <<names[1], names[1]>> ELSE [k \in 1..n |-> names[k]]

\* A run of the whole pipeline on two source files, with or without a
\* repeated candidate, each of which os.Open opens or not, with an interrupt
\* possible at any moment.
Init ==
    /\ \E c \in Configs, n \in 0..MaxUsers, m \in 0..MaxPass,
          uo \in BOOLEAN, po \in BOOLEAN, ur \in BOOLEAN, pr \in BOOLEAN :
          LET f == [users |-> [opened |-> uo, lines |->
                       SourceLines(<<"u1", "u222", "u3", "u444", "u5">>,
                                   n, ur)],
                    passes |-> [opened |-> po, lines |->
                       SourceLines(<<"p1", "p222", "p3", "p444", "p5">>,
                                   m, pr)]]
          IN  /\ ur => n = 2
              /\ pr => m = 2
              /\ Len(Yield(f.users)) * Len(Yield(f.passes)) <= MaxPairs
              /\ c.connectMode => (uo /\ po)
              /\ ValidInputs(c, Yield(f.users), Yield(f.passes))
              /\ PoolStartFiles(c, f)
    /\ stream = StreamIdle
    /\ yielded = <<>>
    /\ SetupIdle

GeneratorActions ==
    \/ GenCollectUser \/ GenUsersDone \/ GenCollectPass \/ GenPassDone
    \/ GenNextPass \/ SendCred \/ GenClose

WorkerActions ==
    \E w \in WorkerIds :
       \/ WorkerPrecheck(w) \/ TestLoginPing(w) \/ TestLoginConnect(w)
       \/ TestLoginSession(w) \/ WorkerReport(w) \/ WorkerSend(w)
       \/ WorkerProgress(w) \/ WorkerSaveCreate(w) \/ WorkerSaveEncode(w)
       \/ WorkerRelease(w) \/ WorkerEnd(w)

Next ==
    \/ GeneratorActions
    \/ DispatchAdmit \/ DispatchCancelled \/ DispatchRangeEnd
    \/ DispatchWaitDone
    \/ WorkerActions
    \/ CollectCancelled \/ CollectResult \/ CollectClosed
    \/ MainReturn \/ Interrupt

Spec == Init /\ [][Next]_vars

\* Runs to exhaustion with one worker, on every pair of candidate lists
\* (repetitions included), without first-only mode and without interrupt.
InitGen ==
    /\ \E uf \in BOOLEAN, users \in SeqsUpTo(Idents, MaxGenUsers),
          passes \in SeqsUpTo(Secrets, MaxGenPass) :
          /\ Len(users) * Len(passes) <= MaxGenPairs
          /\ PoolStart([Workers |-> 1, FirstOnly |-> FALSE, UserFirst |-> uf,
                        connectMode |-> FALSE], users, passes)
    /\ stream = StreamIdle
    /\ yielded = <<>>
    /\ SetupIdle

NextGen ==
    \/ GeneratorActions
    \/ DispatchAdmit \/ DispatchRangeEnd \/ DispatchWaitDone
    \/ WorkerActions
    \/ CollectResult \/ CollectClosed
    \/ MainReturn

SpecGen == InitGen /\ [][NextGen]_vars

\* One source stream reading one file, for every file and every sentinel.
InitStream ==
    /\ \E kind \in {"plain", "resume"}, file \in Files, lastValue \in RawLines :
          /\ kind = "plain" => lastValue = <<>>
          /\ stream = [kind |-> kind, file |-> file, lastValue |-> lastValue,
                       pos |-> 0, foundLast |-> FALSE, opened |-> FALSE,
                       pc |-> "open"]
    /\ yielded = <<>>
    /\ SetupIdle
    /\ PoolStart([Workers |-> 1, FirstOnly |-> FALSE, UserFirst |-> FALSE,
                  connectMode |-> FALSE], <<>>, <<>>)

SpecStream == InitStream /\ [][NextStream]_vars

IdleConfig ==
    [Workers |-> 1, FirstOnly |-> FALSE, UserFirst |-> FALSE,
     connectMode |-> FALSE]

\* A run from the saves of earlier runs (state.json absent at first) through
\* the choice of its streams to the end of its pool, with one worker.
InitStart ==
    /\ start = [StartIdle EXCEPT !.pc = "earlier"]
    /\ count = CountIdle
    /\ conf = ConfIdle
    /\ login = LoginIdle
    /\ prior = PriorIdle
    /\ stream = StreamIdle
    /\ yielded = <<>>
    /\ PoolStart(IdleConfig, <<>>, <<>>)

SpecStart == InitStart /\ [][NextStart \/ NextGen]_vars

\* The progress estimate on every setting of the sources and every pair of
\* files, a file given by a setting being readable or not.
InitCount ==
    /\ \E c \in StartConfigs, uo \in BOOLEAN, po \in BOOLEAN,
          uf \in CountedFiles, pf \in CountedFiles :
          /\ c.UserList = "" => (~uo /\ uf = <<>>)
          /\ c.PassList = "" => (~po /\ pf = <<>>)
          /\ count = [CountIdle EXCEPT !.pc = "count", !.cfg = c,
                                       !.userOpened = uo, !.userFile = uf,
                                       !.passOpened = po, !.passFile = pf]
    /\ start = StartIdle
    /\ conf = ConfIdle
    /\ login = LoginIdle
    /\ prior = PriorIdle
    /\ stream = StreamIdle
    /\ yielded = <<>>
    /\ PoolStart(IdleConfig, <<>>, <<>>)

SpecCount == InitCount /\ [][CountTotal]_vars

\* After flag.Parse: every choice of the flags given, of their values and of
\* the config file's content.
InitConfig ==
    /\ \E given \in [Settings -> BOOLEAN], host \in FlagValues.Host,
          w \in FlagValues.Workers, f \in FlagValues.FirstOnly,
          hasFile \in BOOLEAN, newCfg \in FileConfigs :
          LET flags == [Host |-> IF given.Host THEN host
                                 ELSE FlagDefaults.Host,
                        Workers |-> IF given.Workers THEN w
                                    ELSE FlagDefaults.Workers,
                        FirstOnly |-> IF given.FirstOnly THEN f
                                      ELSE FlagDefaults.FirstOnly]
          IN  conf = [pc |-> "parsed", given |-> given, flags |-> flags,
                      cfg |-> flags, hasFile |-> hasFile,
                      newCfg |-> IF hasFile THEN newCfg ELSE ConfIdle.newCfg]
    /\ start = StartIdle
    /\ count = CountIdle
    /\ login = LoginIdle
    /\ prior = PriorIdle
    /\ stream = StreamIdle
    /\ yielded = <<>>
    /\ PoolStart(IdleConfig, <<>>, <<>>)

SpecConfig == InitConfig /\ [][NextConfig]_vars

\* One call of testLogin under every combination of the settings.
InitLogin ==
    /\ \E c \in LoginConfigs :
          login = [LoginIdle EXCEPT !.pc = "ping", !.cfg = c]
    /\ start = StartIdle
    /\ count = CountIdle
    /\ conf = ConfIdle
    /\ prior = PriorIdle
    /\ stream = StreamIdle
    /\ yielded = <<>>
    /\ PoolStart(IdleConfig, <<>>, <<>>)

SpecLogin == InitLogin /\ [][NextLogin]_vars

\* A run resumed with one worker from the checkpoint (lastUser, lastPass) of
\* an earlier run on the same two files, which hold no candidate twice: the
\* checkpoint is any pair of a candidate of each file, and state.json
\* still holds its record when the pool starts.
InitResume ==
    /\ \E uf \in BOOLEAN, userFile \in ResumeFiles, passFile \in ResumeFiles :
          LET U == resumeStreamFromFile(userFile, <<>>)
              S == resumeStreamFromFile(passFile, <<>>)
          IN  /\ Cardinality({U[k] : k \in 1..Len(U)}) = Len(U)
              /\ Cardinality({S[k] : k \in 1..Len(S)}) = Len(S)
              /\ \E i \in 1..Len(U), j \in 1..Len(S) :
                    /\ prior = [userFile |-> userFile, passFile |-> passFile,
                                lastUser |-> U[i], lastPass |-> S[j]]
                    /\ PoolStartState(
                          [Workers |-> 1, FirstOnly |-> FALSE,
                           UserFirst |-> uf, connectMode |-> FALSE],
                          [users |-> Readable(Texts(
                               resumeStreamFromFile(userFile, U[i]))),
                           passes |-> Readable(Texts(
                               resumeStreamFromFile(passFile, S[j])))],
                          Encode(Text(U[i]), Text(S[j])))
    /\ start = StartIdle
    /\ count = CountIdle
    /\ conf = ConfIdle
    /\ login = LoginIdle
    /\ stream = StreamIdle
    /\ yielded = <<>>

SpecResume == InitResume /\ [][NextGen]_vars

\* Runs in which nothing cancels (no interrupt, no first-only mode) on every
\* worker limit, and with one worker up to MaxLivePairs pairs, more than
\* its results channel holds: the Go
\* scheduler runs every goroutine that can take a step, so some step is
\* taken while one is possible.
InitLive ==
    /\ \E c \in {x \in Configs : ~x.FirstOnly}, n \in 0..MaxLivePairs, m \in 0..MaxPass :
          LET users == [k \in 1..n |-> <<"u1", "u222", "u3", "u444", "u5">>[k]]
              passes == [k \in 1..m |-> <<"p1", "p222", "p3", "p444", "p5">>[k]]
          IN  /\ n * m <= (IF c.Workers = 1 THEN MaxLivePairs ELSE MaxPairs)
              /\ ValidInputs(c, users, passes)
              /\ PoolStart(c, users, passes)
    /\ stream = StreamIdle
    /\ yielded = <<>>
    /\ SetupIdle

\* Runs on every worker limit the flag parser accepts and main passes on,
\* zero included, with an interrupt possible at any moment.
LimitConfigs ==
    [Workers : 0..MaxWorkers, FirstOnly : BOOLEAN, UserFirst : BOOLEAN,
     connectMode : BOOLEAN]

InitAnyLimit ==
    /\ \E c \in LimitConfigs, n \in 0..MaxUsers, m \in 0..MaxPass :
          LET users == [k \in 1..n |-> <<"u1", "u222", "u3", "u444", "u5">>[k]]
              passes == [k \in 1..m |-> <<"p1", "p222", "p3", "p444", "p5">>[k]]
          IN  /\ n * m <= MaxPairs
              /\ ValidInputs(c, users, passes)
              /\ PoolStart(c, users, passes)
    /\ stream = StreamIdle
    /\ yielded = <<>>
    /\ SetupIdle

SpecAnyLimit == InitAnyLimit /\ [][Next]_vars

SpecLive == InitLive /\ [][NextGen]_vars /\ WF_vars(NextGen)

\* ------------------------------------------------------------------------
\* Properties of the worker pool (specification Spec)
\* ------------------------------------------------------------------------
\* Workers inside testLogin.
InFlight ==
    {w \in WorkerIds : workers[w].pc \in {"trial", "connect", "session"}}

\* C1: the number of testLogin calls in flight never exceeds the worker
\* limit cfg.Workers.
C1_InFlightWithinLimit == Cardinality(InFlight) <= cfg.Workers

\* Every slot is busy with a trial and a further pair waits for a slot.
C1_Witness ==
    /\ Cardinality(InFlight) = cfg.Workers
    /\ semaphore = cfg.Workers
    /\ disp.pc = "select"

\* Successes printed by the pool: by a worker that set the flag or by the
\* collector.
SurfacedByPool == {s \in surfaced : s.by \in {"worker", "collector"}}

\* C2: in first-only mode exactly one success is surfaced over the whole run:
\* never more than one, and one at the end of an uninterrupted run in which
\* some trial returned a success.
C2_ExactlyOneSurfaced ==
    cfg.FirstOnly =>
        /\ Cardinality(SurfacedByPool) <= 1
        /\ (exited /\ ~interrupted
                /\ \E w \in WorkerIds : workers[w].result # "")
            => Cardinality(SurfacedByPool) = 1

\* C3: results is closed only when no admitted trial is still inside
\* testLogin.
C3_ClosedOnlyWhenIdle ==
    [][(~resultsClosed /\ resultsClosed') => InFlight = {}]_vars

\* C4: once the context is cancelled the dispatch loop admits no further
\* pair.
C4_NoAdmissionAfterCancel ==
    [][ctxDone => Len(workers') = Len(workers)]_vars

Collected(w) == [by |-> "collector", w |-> w] \in surfaced

AllPairsTried == Len(workers) = Len(userList) * Len(passList)

\* C5 as stated: without first-only mode and without cancellation, at the
\* end of the run every trial whose login succeeded was collected, no other
\* was, and successCount is the number of trials whose login succeeded.
C5_EverySuccessCollected ==
    (collector = "complete" /\ ~cfg.FirstOnly /\ ~interrupted) =>
        /\ AllPairsTried
        /\ \A w \in WorkerIds : Collected(w) <=> workers[w].authed
        /\ successCount = Cardinality({w \in WorkerIds : workers[w].authed})

\* C5 amended: without first-only mode and without cancellation, at the end
\* of the run every trial whose testLogin returned a non-empty result was
\* sent and collected once, a trial whose testLogin returned the empty string
\* sent nothing, and successCount is the number of non-empty results.
C5_EveryResultCollected ==
    (collector = "complete" /\ ~cfg.FirstOnly /\ ~interrupted) =>
        /\ AllPairsTried
        /\ results = <<>>
        /\ \A w \in WorkerIds :
              /\ workers[w].pc = "done"
              /\ Collected(w) <=> workers[w].result # ""
        /\ successCount
             = Cardinality({w \in WorkerIds : workers[w].result # ""})

\* A complete run of two trials: one success collected, one failure.
C5_Witness ==
    /\ collector = "complete" /\ ~cfg.FirstOnly /\ ~interrupted
    /\ Len(workers) = 2
    /\ successCount = 1
    /\ \E w \in WorkerIds : workers[w].result = "" /\ ~Collected(w)

\* ------------------------------------------------------------------------
\* Properties of the pair generator (specification SpecGen)
\* ------------------------------------------------------------------------
IsPrefix(a, b) == Len(a) <= Len(b) /\ a = SubSeq(b, 1, Len(a))

\* for each u of U in order, for each p of P in order, the pair (u, p)
IdentityMajor(U, P) ==
    [k \in 1..(Len(U) * Len(P)) |->
        Credential(U[((k - 1) \div Len(P)) + 1], P[((k - 1) % Len(P)) + 1])]

\* for each p of P in order, for each u of U in order, the pair (u, p)
SecretMajor(U, P) ==
    [k \in 1..(Len(U) * Len(P)) |->
        Credential(U[((k - 1) % Len(U)) + 1], P[((k - 1) \div Len(U)) + 1])]

\* C6: with user-first the pairs are sent in identity-major order, and all
\* |U|*|P| of them have been sent when the generator closes credChan.
C6_UserFirstOrder ==
    cfg.UserFirst =>
        /\ IsPrefix(emitted, IdentityMajor(userList, passList))
        /\ gen.pc = "done" => emitted = IdentityMajor(userList, passList)

C6_Witness ==
    /\ cfg.UserFirst
    /\ gen.pc = "done"
    /\ userList = <<"u1", "u2">> /\ passList = <<"p1", "p2">>
    /\ emitted = <<Credential("u1", "p1"), Credential("u1", "p2"),
                   Credential("u2", "p1"), Credential("u2", "p2")>>

\* C7: with password-first the pairs are sent in secret-major order, and all
\* |U|*|P| of them have been sent when the generator closes credChan.
C7_PassFirstOrder ==
    ~cfg.UserFirst =>
        /\ IsPrefix(emitted, SecretMajor(userList, passList))
        /\ gen.pc = "done" => emitted = SecretMajor(userList, passList)

C7_Witness ==
    /\ ~cfg.UserFirst
    /\ gen.pc = "done"
    /\ userList = <<"u1", "u2">> /\ passList = <<"p1", "p2">>
    /\ emitted = <<Credential("u1", "p1"), Credential("u2", "p1"),
                   Credential("u1", "p2"), Credential("u2", "p2")>>

NoRepeats(s) == \A i, j \in 1..Len(s) : i # j => s[i] # s[j]

\* C8 as stated: the generator never sends the same pair twice, whatever the
\* sources contain.
C8_NoPairTwice == NoRepeats(emitted)

\* C8 amended: the generator never sends the same pair twice when no
\* candidate occurs twice in the identity stream or in the secret stream.
C8_NoPairTwiceWithoutRepeats ==
    (NoRepeats(userList) /\ NoRepeats(passList)) => NoRepeats(emitted)

C8_Witness ==
    /\ NoRepeats(userList) /\ NoRepeats(passList)
    /\ Len(userList) = 2 /\ Len(passList) = 2
    /\ Len(emitted) = 4
    /\ disp.pc = "done"

\* ------------------------------------------------------------------------
\* Properties of the resumable stream (specification SpecStream)
\* ------------------------------------------------------------------------
\* The trimmed non-blank lines of a sequence of raw lines.
Candidates(f) ==
    SelectSeq([k \in 1..Len(f) |-> TrimSpace(f[k])], LAMBDA l : l # <<>>)

\* Indices of the lines equal to the sentinel once trimmed.
Matches(f, v) == {k \in 1..Len(f) : TrimSpace(f[k]) = v}

FirstMatch(f, v) ==
    CHOOSE k \in Matches(f, v) : \A m \in Matches(f, v) : k <= m

ResumeFinished ==
    /\ stream.kind = "resume"
    /\ stream.opened
    /\ stream.pc = "done"

\* C9: with a non-empty sentinel that occurs in the file, the resumable
\* stream yields exactly the trimmed non-blank lines after the first line
\* equal to the sentinel.
C9_ResumeAfterSentinel ==
    (/\ ResumeFinished
     /\ stream.lastValue # <<>>
     /\ Matches(stream.file, stream.lastValue) # {})
    => yielded = Candidates(SubSeq(stream.file,
                                   FirstMatch(stream.file, stream.lastValue) + 1,
                                   Len(stream.file)))

\* File [a, aa, " a"] with sentinel aa yields exactly [a].
C9_Witness ==
    /\ ResumeFinished
    /\ stream.file = << <<"a">>, <<"a", "a">>, <<" ", "a">> >>
    /\ stream.lastValue = <<"a", "a">>
    /\ yielded = << <<"a">> >>

\* The sentinel is the last non-blank line and occurs nowhere before.
SentinelIsLast(f, v) ==
    /\ Matches(f, v) # {}
    /\ Candidates(SubSeq(f, FirstMatch(f, v) + 1, Len(f))) = <<>>

\* C10: with a non-empty sentinel equal to no line of the file the resumable
\* stream never yields anything, as when the sentinel is the last non-blank
\* line.
C10_AbsentSentinelYieldsNothing ==
    (stream.kind = "resume" /\ stream.lastValue # <<>>) =>
        /\ Matches(stream.file, stream.lastValue) = {} => yielded = <<>>
        /\ (stream.pc = "done"
              /\ SentinelIsLast(stream.file, stream.lastValue))
           => yielded = <<>>

\* A file of three non-blank lines read to its end with an absent sentinel.
C10_Witness ==
    /\ ResumeFinished
    /\ stream.lastValue = <<"a", "a">>
    /\ Len(stream.file) = 3
    /\ \A k \in 1..3 : TrimSpace(stream.file[k]) = <<"a">>
    /\ yielded = <<>>
\* The stream reads from the first line: streamLinesFromFile, or
\* resumeStreamFromFile with the empty sentinel.
FromStart ==
    \/ stream.kind = "plain"
    \/ stream.kind = "resume" /\ stream.lastValue = <<>>

\* C11: with the empty sentinel the resumable stream yields what the plain
\* stream yields on the same file: after any number of lines read, the
\* trimmed non-blank lines among them, in file order, none of them empty.
C11_EmptySentinelIsPlain ==
    (stream.opened /\ FromStart) =>
        /\ yielded = Candidates(SubSeq(stream.file, 1, stream.pos))
        /\ \A k \in 1..Len(yielded) : yielded[k] # <<>>
        /\ stream.pc = "done" => yielded = Candidates(stream.file)

\* File [" a", " ", "aa"] resumed with the empty sentinel yields [a, aa].
C11_Witness ==
    /\ ResumeFinished
    /\ stream.lastValue = <<>>
    /\ stream.file = << <<" ", "a">>, <<" ">>, <<"a", "a">> >>
    /\ yielded = << <<"a">>, <<"a", "a">> >>
\* Workers between os.Create and the end of Encode inside saveState.
InsideSave == {w \in WorkerIds : workers[w].pc = "encode"}

\* C12: no two workers are inside the checkpoint save (after the truncation,
\* before the end of the write) at the same time.
C12_SaveMutuallyExclusive == Cardinality(InsideSave) <= 1

\* C13: once every worker has finished, state.json holds exactly the
\* encoded record of the pair whose save returned last: no bytes of another
\* record, no second record.
C13_LastSaveWins ==
    (workers # <<>> /\ \A w \in WorkerIds : workers[w].pc = "done") =>
        /\ lastSave # <<>>
        /\ stateFile = Encode(lastSave[1].LastUser, lastSave[1].LastPass)
\* state.json begins with the whole record of the save that returned last.
Intact ==
    /\ lastSave # <<>>
    /\ HasPrefixAt(stateFile, 1,
                   Encode(lastSave[1].LastUser, lastSave[1].LastPass))

\* A worker of the run has called saveState.
RunSaved == \E w \in WorkerIds : workers[w].saves > 0

\* C14: every loadState of a run returns the record of the last completed
\* save, or the empty record when state.json is absent or does not hold that
\* record whole; with resume set and no state.json both file streams are
\* plain streams from the first line; and every load of the run happens
\* before any worker of the run calls saveState, none after.
C14_LoadReturnsLastSave ==
    /\ [][\A k \in 1..Len(start.loaded') :
             k > Len(start.loaded) =>
                start.loaded'[k] = IF Intact THEN lastSave[1]
                                   ELSE EmptyState]_vars
    /\ []((start.pc \in {"done", "running"}
              /\ start.resume /\ ~start.exists) =>
             /\ start.loaded = <<>>
             /\ start.cfg.UserList # "" => start.userSrc.kind = "plain"
             /\ (start.cfg.SinglePass = "" /\ start.cfg.PassList # "") =>
                   start.passSrc.kind = "plain")
    /\ [][start.loaded' # start.loaded => (workers = <<>> /\ bar = 0)]_vars
    /\ [][RunSaved => start.loaded' = start.loaded]_vars

\* Both axes resumed from the pair (u1,p1) loaded twice, and the run has
\* since saved its own pair (u222,p1) over it.
C14_Witness ==
    /\ start.pc = "running"
    /\ start.loaded = <<[LastUser |-> "u1", LastPass |-> "p1"],
                        [LastUser |-> "u1", LastPass |-> "p1"]>>
    /\ start.userSrc = [kind |-> "resume", value |-> "u1"]
    /\ start.passSrc = [kind |-> "resume", value |-> "p1"]
    /\ RunSaved
    /\ lastSave = <<[LastUser |-> "u222", LastPass |-> "p1"]>>
    /\ stateFile = Encode("u222", "p1")
\* C15: the run does not end while an admitted trial is in flight: when main
\* has returned, every admitted worker has reached its end.
C15_NoExitWhileInFlight ==
    exited => \A w \in WorkerIds : workers[w].pc = "done"
\* C16: the collector ends with the interrupted outcome only when the
\* cancellation was triggered, and with the complete outcome only when the
\* generator is exhausted, every worker has finished and no cancellation was
\* triggered.
C16_OutcomeTellsCause ==
    [][/\ (collector = "running" /\ collector' = "interrupted") => ctxDone
       /\ (collector = "running" /\ collector' = "complete") =>
             /\ ~ctxDone
             /\ gen.pc = "done"
             /\ \A w \in WorkerIds : workers[w].pc = "done"]_vars
\* A source file of the run could not be opened.
Unopened == ~files.users.opened \/ ~files.passes.opened

\* C18: when a source file cannot be opened, no pair is emitted and no trial
\* is admitted; without an interrupt the run never hangs before main returns,
\* and the collector ends with the complete outcome on a results channel
\* closed after the generator's end.
C18_UnopenedFileEndsRun ==
    Unopened =>
        /\ emitted = <<>>
        /\ workers = <<>>
        /\ (~interrupted /\ ~exited) => ENABLED NextGen
        /\ (~interrupted /\ collector # "running") =>
              /\ collector = "complete"
              /\ resultsClosed
              /\ gen.pc = "done"

\* The identity file with two lines cannot be opened, the secret file
\* yields its candidate: the run has ended as complete.
C18_Witness ==
    /\ ~files.users.opened /\ Len(files.users.lines) = 2
    /\ files.passes.opened /\ Len(passList) = 1
    /\ ~interrupted
    /\ collector = "complete"
    /\ exited
\* Number of lines of a file that are not blank.
NonBlank(file) == Len(Candidates(file))

\* C17: the progress estimate is 1 for a literal identity with a literal or
\* absent secret, N for a literal identity with a readable secret file of N
\* non-blank lines, M for a readable identity file of M non-blank lines with
\* a literal or absent secret, and M*N for two readable files.
C17_ProgressEstimate ==
    (count.pc = "done"
        /\ (count.cfg.UserList # "" => count.userOpened)
        /\ (count.cfg.PassList # "" => count.passOpened)) =>
        LET literalUser == count.cfg.SingleUser # ""
            secretFile == count.cfg.SinglePass = "" /\ count.cfg.PassList # ""
            M == NonBlank(count.userFile)
            N == NonBlank(count.passFile)
        IN  /\ (literalUser /\ ~secretFile) => count.totalTests = 1
            /\ (literalUser /\ secretFile) => count.totalTests = N
            /\ (~literalUser /\ ~secretFile) => count.totalTests = M
            /\ (~literalUser /\ secretFile) => count.totalTests = M * N

\* Two files of two lines, one blank line in the identity file: 1 * 2.
C17_Witness ==
    /\ count.pc = "done"
    /\ count.cfg.SingleUser = "" /\ count.cfg.SinglePass = ""
    /\ count.userOpened /\ count.passOpened
    /\ count.userFile = << <<" ">>, <<" ", "a">> >>
    /\ count.passFile = << <<"a">>, <<" ", "a">> >>
    /\ count.totalTests = 2
\* C19: a setting given on the command line keeps its command-line value
\* after loadConfig, whatever the config file holds; a setting not given
\* takes the value of the config file when the file has one.
C19_FlagsOverrideFile ==
    conf.pc = "loaded" =>
        \A s \in Settings : conf.given[s] => conf.cfg[s] = conf.flags[s]
\* C20 as stated: testLogin performs at most one follow-on action before it
\* returns.
C20_AtMostOneAction == Len(login.actions) <= 1

\* C20 amended: testLogin performs the dump alone when dump is set, else the
\* interactive session alone when connect is set, else the enumeration (when
\* enum is set) followed by the execution of the configured command (unless
\* the command is dangerous and not allowed).
C20_EnumThenCommand ==
    /\ login.cfg.Dump => login.actions \in {<<>>, <<"dump">>}
    /\ (~login.cfg.Dump /\ login.cfg.connectMode) =>
          login.actions \in {<<>>, <<"interactive">>}
    /\ (~login.cfg.Dump /\ ~login.cfg.connectMode
            /\ login.pc = "returned" /\ login.result = "message") =>
          login.actions =
              (IF login.cfg.Enum THEN <<"enum">> ELSE <<>>)
              \o (IF login.cfg.dangerous /\ ~login.cfg.AllowDangerous
                  THEN <<>> ELSE <<"exec">>)
    /\ Len(login.actions) <= 2

\* With enum set, testLogin has enumerated and then executed the command.
C20_Witness ==
    /\ login.pc = "returned"
    /\ login.cfg.Enum
    /\ login.actions = <<"enum", "exec">>
\* ------------------------------------------------------------------------
\* Properties of a resumed run (specification SpecResume)
\* ------------------------------------------------------------------------
\* The pairs of the two whole files in the order of the strategy.
FullOrder ==
    LET U == Texts(Candidates(prior.userFile))
        S == Texts(Candidates(prior.passFile))
    IN  IF cfg.UserFirst THEN IdentityMajor(U, S) ELSE SecretMajor(U, S)

\* The pairs that follow the checkpoint in that order.
AfterCheckpoint ==
    LET c == Credential(Text(prior.lastUser), Text(prior.lastPass))
        k == CHOOSE k \in 1..Len(FullOrder) : FullOrder[k] = c
    IN  SubSeq(FullOrder, k + 1, Len(FullOrder))

\* C21: a run resumed with one worker tries exactly the pairs that follow
\* the checkpoint in generation order: it emits them in that order and has
\* emitted all of them when the generator ends.
C21_ResumeContinues ==
    /\ IsPrefix(emitted, AfterCheckpoint)
    /\ gen.pc = "done" => emitted = AfterCheckpoint
\* ------------------------------------------------------------------------
\* Properties of the workers (specification Spec)
\* ------------------------------------------------------------------------
\* C22: in first-only mode a worker that finds successFound set at its check
\* after the trial discards its result: no worker stands at the send on
\* results, no result is in the channel, and the collector prints none.
C22_LateSuccessDiscarded ==
    cfg.FirstOnly =>
        /\ \A w \in WorkerIds : workers[w].pc # "send"
        /\ results = <<>>
        /\ \A w \in WorkerIds : ~Collected(w)
\* C23: no worker sends on results after the dispatch goroutine has closed
\* it: the send-on-closed-channel panic never happens.
C23_NoSendOnClosed == ~panicked
\* The pairs handed to workers, in the order of admission.
Admitted ==
    [w \in WorkerIds |-> Credential(workers[w].user, workers[w].pass)]

\* C24 as stated: the pairs are admitted in the order the generator emits
\* them, at most one emitted pair is not (yet) admitted, every emitted pair
\* is admitted when the run completes without cancellation, and no pair is
\* tried twice, whatever the sources contain.
C24_NoPairTriedTwice ==
    /\ IsPrefix(Admitted, emitted)
    /\ Len(emitted) <= Len(workers) + 1
    /\ NoRepeats(Admitted)
    /\ (collector = "complete" /\ ~interrupted /\ ~successFound) =>
          Admitted = emitted

\* C24 amended: the pairs are admitted in the order the generator emits
\* them, one worker per emission and none put back (the admitted pairs are
\* the emitted ones but at most the last), every emitted pair is admitted
\* when the run completes without cancellation, and no pair is tried twice
\* when no candidate occurs twice in a source.
C24_AdmittedInEmissionOrder ==
    /\ IsPrefix(Admitted, emitted)
    /\ Len(emitted) <= Len(workers) + 1
    /\ (NoRepeats(userList) /\ NoRepeats(passList)) => NoRepeats(Admitted)
    /\ (collector = "complete" /\ ~interrupted /\ ~successFound) =>
          Admitted = emitted

\* A complete run of two trials of different pairs without cancellation,
\* the first one failed.
C24_Witness ==
    /\ collector = "complete" /\ ~interrupted /\ ~successFound
    /\ NoRepeats(userList) /\ NoRepeats(passList)
    /\ Len(emitted) = 2
    /\ Admitted = emitted
    /\ workers[1].pc = "done" /\ ~workers[1].authed
    /\ workers[2].pc = "done"
\* Workers that took the first branch: set successFound, printed, cancelled.
FlagSetters == {w \in WorkerIds : [by |-> "worker", w |-> w] \in surfaced}

\* C25: successFound is set only in first-only mode, at most once, by a
\* worker whose own trial succeeded and which found the flag unset under the
\* lock; cancel() is called in the same critical section, so a set flag
\* implies the cancellation; and the flag is never cleared.
C25_FlagSetOnceWithCancel ==
    /\ [](/\ successFound => (cfg.FirstOnly /\ ctxDone)
          /\ Cardinality(FlagSetters) <= 1
          /\ successFound <=> FlagSetters # {}
          /\ \A w \in FlagSetters : workers[w].authed)
    /\ [][/\ successFound => successFound'
          /\ (~successFound /\ successFound') =>
                /\ mu = 0
                /\ ctxDone'
                /\ \E w \in WorkerIds :
                      /\ workers[w].pc = "report"
                      /\ workers[w].authed
                      /\ FlagSetters' = {w}]_vars

\* First-only mode: one worker has set the flag and cancelled, with no
\* interrupt, while another worker with a successful trial is about to
\* check the flag.
C25_Witness ==
    /\ cfg.FirstOnly /\ successFound /\ ctxDone /\ ~interrupted
    /\ Cardinality(FlagSetters) = 1
    /\ \E w \in WorkerIds : workers[w].pc = "report" /\ workers[w].authed
\* Workers that returned at the check before the trial.
\* Workers whose goroutine is over: it returned, or its send panicked and it
\* unwound through its deferred calls.
Ended ==
    {w \in WorkerIds : \/ workers[w].pc = "done"
                       \/ panicked /\ workers[w].pc = "send"}

\* Workers that have given their slot back.
Released ==
    Ended \cup {w \in WorkerIds : workers[w].pc = "finish"}

Skipped ==
    {w \in WorkerIds : ~workers[w].tried
                           /\ workers[w].pc \in {"release", "finish", "done"}}

\* C26: in first-only mode a worker that sees successFound set at its check
\* before the trial returns: it never calls testLogin, bar.Add or saveState,
\* and its deferred release of the slot runs (the slots taken are those of
\* the workers that have not ended).
C26_PrecheckSkipsTrial ==
    /\ [](/\ \A w \in Skipped :
                /\ cfg.FirstOnly /\ successFound
                /\ workers[w].events = 0 /\ workers[w].saves = 0
                /\ (workers[w].pc = "release" /\ Alive) =>
                      ENABLED WorkerRelease(w)
                /\ (workers[w].pc = "finish" /\ Alive) => ENABLED WorkerEnd(w)
          /\ semaphore = Cardinality(WorkerIds \ Released)
          /\ wg = Cardinality(WorkerIds \ Ended))
    /\ [][\A w \in WorkerIds :
             (workers[w].pc = "start" /\ workers'[w].pc # "start"
                  /\ cfg.FirstOnly /\ successFound) =>
                 workers'[w].pc = "release"]_vars

\* A worker admitted while another one succeeded has returned at its check
\* and ended; the slot it held is free.
C26_Witness ==
    /\ \E w \in Skipped : workers[w].pc = "done"
    /\ \A w \in WorkerIds : workers[w].pc = "done"
    /\ semaphore = 0
    /\ ~interrupted
\* C27: every worker that executes a trial calls saveState exactly once,
\* after testLogin has returned, with its own pair, and emits one progress
\* event; a worker that executes no trial calls neither.  At the end of the
\* run every worker that executed a trial has made its call.
C27_OneSavePerTrial ==
    /\ \A w \in WorkerIds :
          /\ workers[w].events <= 1
          /\ workers[w].saves <= workers[w].events
          /\ workers[w].events = 1 =>
                (workers[w].tried
                     /\ workers[w].pc \in {"save", "encode", "release", "finish",
                                          "done"})
          /\ workers[w].saves = 1 =>
                (workers[w].tried
                     /\ workers[w].pc \in {"encode", "release", "finish", "done"})
    /\ lastSave # <<>> =>
          \E w \in WorkerIds :
              /\ workers[w].saves = 1
              /\ lastSave[1] = [LastUser |-> workers[w].user,
                                LastPass |-> workers[w].pass]
    /\ (exited \/ panicked) =>
          \A w \in WorkerIds :
              workers[w].tried =>
                  (workers[w].events = 1 /\ workers[w].saves = 1)
\* The run has ended by exhaustion: every generated pair was admitted, every
\* worker has ended, results is closed and drained, the collector returned
\* with the complete outcome and main returned.
EndedComplete ==
    /\ exited
    /\ collector = "complete"
    /\ gen.pc = "done"
    /\ Len(emitted) = Len(userList) * Len(passList)
    /\ Admitted = emitted
    /\ \A w \in WorkerIds : workers[w].pc = "done"
    /\ resultsClosed /\ results = <<>>

\* A worker holds mu and waits at its send because results is full.
BlockedSend ==
    \E w \in WorkerIds :
        /\ workers[w].pc = "send"
        /\ mu = w
        /\ ~resultsClosed
        /\ Len(results) = ResultsCap

SecretsTaken == Len(passList) - Len(passChan)

\* C29: password-first, no pair is sent before the identity stream is
\* drained, the generator buffers no secret, and the k-th secret is received
\* only after the dispatch loop took every pair of the first k-1 secrets;
\* user-first, no pair is sent before both streams are drained.
C29_StreamConsumption ==
    /\ ~cfg.UserFirst =>
          /\ gen.passwords = <<>>
          /\ gen.pc = "users" => passChan = passList
          /\ emitted # <<>> => (userChan = <<>> /\ gen.users = userList)
          /\ SecretsTaken >= 1 =>
                /\ gen.users = userList
                /\ Len(emitted) >= (SecretsTaken - 1) * Len(userList)
                /\ Len(emitted) <= SecretsTaken * Len(userList)
    /\ cfg.UserFirst =>
          (emitted # <<>> =>
              /\ userChan = <<>> /\ gen.users = userList
              /\ passChan = <<>> /\ gen.passwords = passList)

\* Password-first with two identities: the second secret has just been
\* received, after exactly the two pairs of the first secret were taken.
C29_Witness ==
    /\ ~cfg.UserFirst
    /\ Len(userList) = 2 /\ Len(passList) = 2
    /\ SecretsTaken = 2
    /\ Len(emitted) = 2
    /\ gen.pc = "inner"
\* With a worker limit of zero nothing is admitted and nothing is tried.
ZeroLimitAdmitsNothing ==
    /\ workers = <<>>
    /\ semaphore = 0
    /\ wg = 0
    /\ bar = 0
    /\ surfaced = {}
    /\ lastSave = <<>>

\* With a worker limit of zero the run does not end by exhaustion.
ZeroLimitNeverComplete ==
    ~interrupted =>
       /\ ~ctxDone
       /\ ~resultsClosed
       /\ collector = "running"
       /\ ~exited

\* A step of the dispatch loop, a worker, the collector or main that needs no
\* cancellation, the receive of a pair from the generator included.
PoolStep ==
    \/ SendCred
    \/ DispatchAdmit \/ DispatchRangeEnd \/ DispatchWaitDone
    \/ WorkerActions
    \/ CollectResult \/ CollectClosed
    \/ MainReturn

\* C30 as stated: with Workers = 0 no pair is admitted, no trial is executed,
\* results is never closed by exhaustion and the run ends only through an
\* interrupt.
C30_ZeroLimitOnlyCancelled ==
    cfg.Workers = 0 => (ZeroLimitAdmitsNothing /\ ZeroLimitNeverComplete)

\* C30 amended: with Workers = 0 no pair is admitted and no trial is
\* executed; when the two streams yield at least one pair the dispatch loop
\* blocks on the first pair, results is never closed by exhaustion and the
\* run ends only through an interrupt.
C30_ZeroLimitBlocksOnFirstPair ==
    cfg.Workers = 0 =>
       /\ ZeroLimitAdmitsNothing
       /\ Len(userList) * Len(passList) > 0 =>
             /\ ZeroLimitNeverComplete
             /\ Len(emitted) <= 1
             /\ (disp.pc = "select" /\ ~ctxDone) => ~ENABLED PoolStep

\* The dispatch loop holds the first of two pairs and can neither admit it
\* nor take the second one; the collector waits.
C30_Witness ==
    /\ cfg.Workers = 0
    /\ Len(userList) * Len(passList) = 2
    /\ disp.pc = "select"
    /\ Len(emitted) = 1
    /\ ~ctxDone
    /\ collector = "running"
====
